---- MODULE Spec2Model ----
(***************************************************************************)
(* FaceFix (Sanddino00/Gi-FaceFix): the ps-tN line rewrite engine          *)
(* (smart_replace), the file selector of main() and the preview / apply    *)
(* run of version 0.7.9, the run of 0.7.6 with its log file and the run    *)
(* of V7.3, modelled over texts that are sequences of one-character        *)
(* strings, the characters being those below U+0100.                       *)
(***************************************************************************)
EXTENDS Integers, Sequences, FiniteSets, TLC

VARIABLES
    disk,               \* path -> content of every file that exists
    orig,               \* the disk at the start of the run (history)
    fault,              \* path -> the I/O failure the environment holds for it
    process_disabled,   \* main(): answer to "Process disabled files?"
    scan_subfolders,    \* main(): answer to "Scan subfolders?"
    make_backup,        \* main(): answer to "Create backups before modifying?"
    exclusion_patterns, \* main(): result of get_exclusion_patterns()
    mpc,                \* main(): position in the run
    ini_files,          \* main(): candidate list
    files_to_modify,    \* main(): files whose preview reported a change
    pidx,               \* main(): index of the next file to preview
    previewed,          \* paths whose changes were printed by a preview
    frames,             \* one smart_replace call frame per caller
    io,                 \* file modifications done so far (history)
    line,               \* line engine: content of the one-line input
    parts,              \* line engine: the parts the input was assembled from
    out,                \* line engine: lines produced for it
    run,                \* repeated runs: the number of the run in progress
    first_apply         \* repeated runs: path -> the content of the file and
                        \* of its backup after the run that rewrote the file

vars == <<disk, orig, fault, process_disabled, scan_subfolders, make_backup,
          exclusion_patterns, mpc, ini_files, files_to_modify, pidx,
          previewed, frames, io, line, parts, out, run,
                first_apply>>

-----------------------------------------------------------------------------
(* Characters and character classes of Python's re module (str patterns).  *)

\* The characters of a text are those below U+0100, and every class below
\* is Python's, restricted to them.
\*
\* the letters str.lower() changes, A to Z and U+00C0 to U+00DE without the
\* multiplication sign U+00D7, and at the same index what it makes of them
LowerLetters == <<"a","b","c","d","e","f","g","h","i","j","k","l","m",
                  "n","o","p","q","r","s","t","u","v","w","x","y","z",
                  "à","á","â","ã","ä","å","æ","ç","è","é","ê","ë","ì",
                  "í","î","ï","ð","ñ","ò","ó","ô","õ","ö","ø","ù","ú",
                  "û","ü","ý","þ">>
UpperLetters == <<"A","B","C","D","E","F","G","H","I","J","K","L","M",
                  "N","O","P","Q","R","S","T","U","V","W","X","Y","Z",
                  "À","Á","Â","Ã","Ä","Å","Æ","Ç","È","É","Ê","Ë","Ì",
                  "Í","Î","Ï","Ð","Ñ","Ò","Ó","Ô","Õ","Ö","Ø","Ù","Ú",
                  "Û","Ü","Ý","Þ">>
Digits == {"0","1","2","3","4","5","6","7","8","9"}

UpperSet == {UpperLetters[i] : i \in 1..Len(UpperLetters)}
LowerSet == {LowerLetters[i] : i \in 1..Len(LowerLetters)}

\* \s of a str pattern (what str.isspace knows): the space, "\t", "\n",
\* "\r", "\f", the vertical tab U+000B, the separators U+001C, U+001D,
\* U+001E and U+001F, the next-line character U+0085 and the no-break
\* space U+00A0, in this order
SpaceChars == {" ", "\t", "\n", "\r", "\f", "", "", "", "", "",
               "", " "}
\* \d: no character from U+0080 to U+00FF is a decimal digit
DigitChars == Digits
\* \w: the letters, the digits, "_" and the other characters of U+0080 to
\* U+00FF that str.isalnum knows (U+00AA, U+00B2, U+00B3, U+00B5, U+00B9,
\* U+00BA, U+00BC, U+00BD, U+00BE, U+00DF and U+00FF)
WordChars ==
    UpperSet \cup LowerSet \cup Digits \cup
    {"_", "ª", "²", "³", "µ", "¹", "º", "¼", "½", "¾", "ß", "ÿ"}
\* [.\w]
DotWordChars == WordChars \cup {"."}

\* str.lower(), character by character. re.IGNORECASE matches a letter of
\* a pattern with the characters that lower() takes to it: the literals of
\* the patterns are ASCII letters, and no character from U+0080 to U+00FF
\* matches one of those.
LowerMap ==
    [c \in UpperSet |->
        LowerLetters[CHOOSE i \in 1..Len(UpperLetters) : UpperLetters[i] = c]]

LowerChar(c) == IF c \in UpperSet THEN LowerMap[c] ELSE c

Lower(s) == [i \in 1..Len(s) |-> LowerChar(s[i])]

\* s[i..j-1] ; empty when j <= i
Slice(s, i, j) == SubSeq(s, i, j - 1)

\* `needle in hay`
Contains(hay, needle) ==
    \E i \in 1..(Len(hay) - Len(needle) + 1) :
        Slice(hay, i, i + Len(needle)) = needle

\* hay.endswith(tail)
EndsWith(hay, tail) ==
    /\ Len(hay) >= Len(tail)
    /\ Slice(hay, Len(hay) - Len(tail) + 1, Len(hay) + 1) = tail

\* the text t (lower case) occurs in s at position i, letter case ignored
AtCI(s, i, t) ==
    /\ i >= 1
    /\ i + Len(t) - 1 <= Len(s)
    /\ \A k \in 1..Len(t) : LowerChar(s[i + k - 1]) = t[k]

\* end of the greedy run of characters of the class S that starts at s[i]
RECURSIVE SpanEnd(_, _, _)
SpanEnd(S, s, i) ==
    IF i <= Len(s) /\ s[i] \in S THEN SpanEnd(S, s, i + 1) ELSE i

RECURSIVE Concat(_)
Concat(ss) == IF ss = <<>> THEN <<>> ELSE Head(ss) \o Concat(Tail(ss))

-----------------------------------------------------------------------------
(* Literal texts of the program.                                           *)

T_pst       == <<"p","s","-","t">>
T_resource  == <<"r","e","s","o","u","r","c","e">>
T_face      == <<"f","a","c","e">>
T_diffuse   == <<"d","i","f","f","u","s","e">>
T_normalmap == <<"n","o","r","m","a","l","m","a","p">>
T_facediffuse       == T_face \o T_diffuse
T_faceheaddiffuse   == T_face \o <<"h","e","a","d">> \o T_diffuse
T_faceheadnormalmap == T_face \o <<"h","e","a","d">> \o T_normalmap
T_facenormalmap     == T_face \o T_normalmap
T_this_eq   == <<"t","h","i","s"," ","="," ">>
T_DISABLED  == <<"D","I","S","A","B","L","E","D">>
T_disabled  == <<"d","i","s","a","b","l","e","d">>
T_ini       == <<".","i","n","i">>
T_backup    == <<"_","b","a","c","k","u","p",".","b","a","k">>

-----------------------------------------------------------------------------
(* Text I/O of Python's open(path, "r"/"w", encoding="utf-8").             *)
(* The content of a file is the sequence of the characters its bytes       *)
(* encode in UTF-8: one byte for a character below U+0080, two for the     *)
(* others.                                                                 *)

\* os.linesep of the platform the tool runs on (POSIX)
Linesep == <<"\n">>

\* f.read() in text mode with newline=None: "\r\n" and "\r" become "\n"
RECURSIVE ReadText(_)
ReadText(b) ==
    IF b = <<>> THEN <<>>
    ELSE IF Head(b) = "\r"
         THEN IF Len(b) >= 2 /\ b[2] = "\n"
              THEN <<"\n">> \o ReadText(SubSeq(b, 3, Len(b)))
              ELSE <<"\n">> \o ReadText(Tail(b))
         ELSE <<Head(b)>> \o ReadText(Tail(b))

\* f.writelines(new_lines) in text mode with newline=None: every "\n"
\* is written as os.linesep
RECURSIVE WriteChars(_)
WriteChars(t) ==
    IF t = <<>> THEN <<>>
    ELSE (IF Head(t) = "\n" THEN Linesep ELSE <<Head(t)>>) \o WriteChars(Tail(t))

WriteText(lines) == WriteChars(Concat(lines))

\* the line boundaries str.splitlines knows: "\n", "\r", "\f", the
\* vertical tab U+000B, the separators U+001C, U+001D and U+001E and the
\* next-line character U+0085, in this order
LineBreaks == {"\n", "\r", "\f", "", "", "", "", ""}

\* content.splitlines(True)
RECURSIVE splitlines(_)
splitlines(s) ==
    IF s = <<>> THEN <<>>
    ELSE LET brk == {k \in 1..Len(s) : s[k] \in LineBreaks}
             e   == IF brk = {} THEN Len(s)
                    ELSE CHOOSE k \in brk : \A m \in brk : k <= m
             e2  == IF s[e] = "\r" /\ e < Len(s) /\ s[e + 1] = "\n"
                    THEN e + 1 ELSE e
         IN  <<SubSeq(s, 1, e2)>> \o splitlines(SubSeq(s, e2 + 1, Len(s)))

\* line.rstrip("\n")
RECURSIVE rstrip_nl(_)
rstrip_nl(s) ==
    IF s # <<>> /\ s[Len(s)] = "\n" THEN rstrip_nl(SubSeq(s, 1, Len(s) - 1))
    ELSE s

-----------------------------------------------------------------------------
(* The ps-tN pattern.                                                      *)

\* variant of RhsGeneral: something must stand between Face and the suffix
RhsGeneral_gap(r) ==
    /\ AtCI(r, 1, T_resource)
    /\ \E a \in 9..Len(r) :
          /\ AtCI(r, a, T_face)
          /\ \E suf \in {T_diffuse, T_normalmap} :
                \E b \in (a + 5)..Len(r) :
                    /\ AtCI(r, b, suf)
                    /\ \A k \in 1..(b + Len(suf) - 1) : r[k] \in WordChars

\* 0.7.8 / 0.7.9:  Resource\w*Face\w*(?:Diffuse|NormalMap)(?:[.\w]*)?
\* matched against r, a run of [.\w] characters
RhsGeneral(r) ==
    /\ AtCI(r, 1, T_resource)
    /\ \E a \in 9..Len(r) :
          /\ AtCI(r, a, T_face)
          /\ \E suf \in {T_diffuse, T_normalmap} :
                \E b \in (a + 4)..Len(r) :
                    /\ AtCI(r, b, suf)
                    /\ \A k \in 1..(b + Len(suf) - 1) : r[k] \in WordChars

\* V6 / V7 / V7.3 / 0.7.6:
\* Resource\w*(?:FaceDiffuse|FaceHeadDiffuse|FaceHeadNormalMap|FaceNormalMap)(?:[.\w]*)?
RhsFour(r) ==
    /\ AtCI(r, 1, T_resource)
    /\ \E suf \in {T_facediffuse, T_faceheaddiffuse,
                   T_faceheadnormalmap, T_facenormalmap} :
          \E a \in 9..Len(r) :
              /\ AtCI(r, a, suf)
              /\ \A k \in 1..(a + Len(suf) - 1) : r[k] \in WordChars

NoMatch == [matched |-> FALSE, rhs |-> <<>>]

\* ^\s*ps-t\d+\s*=\s*( <rhs> )\s*$  with re.IGNORECASE, on the stripped line.
\* Each class is disjoint from the character that must follow it, so the
\* greedy runs are the only way the pattern can match.
PatternMatch(four, s) ==
    LET i1 == SpanEnd(SpaceChars, s, 1)
        i2 == i1 + 4
        i3 == SpanEnd(DigitChars, s, i2)
        i4 == SpanEnd(SpaceChars, s, i3)
        i5 == SpanEnd(SpaceChars, s, i4 + 1)
        i6 == SpanEnd(DotWordChars, s, i5)
        i7 == SpanEnd(SpaceChars, s, i6)
    IN  IF /\ AtCI(s, i1, T_pst)
           /\ i3 > i2
           /\ i4 <= Len(s)
           /\ s[i4] = "="
           /\ (IF four THEN RhsFour(Slice(s, i5, i6))
                       ELSE RhsGeneral(Slice(s, i5, i6)))
           /\ i7 = Len(s) + 1
        THEN [matched |-> TRUE, rhs |-> Slice(s, i5, i6)]
        ELSE NoMatch

\* variant of pattern: not anchored at the start of the line (re.search)
pattern_search(s) ==
    LET hits == {k \in 1..(Len(s) + 1) :
                    PatternMatch(FALSE, SubSeq(s, k, Len(s))).matched}
    IN  IF hits = {} THEN NoMatch
        ELSE PatternMatch(FALSE,
                SubSeq(s, CHOOSE k \in hits : \A m \in hits : k <= m, Len(s)))

\* the pattern of 0.7.8 / 0.7.9
pattern(s) == PatternMatch(FALSE, s)

\* the pattern of V6 / V7 / V7.3 / 0.7.6
pattern_four(s) == PatternMatch(TRUE, s)

\* indent = re.match(r'^(\s*)', line).group(1)
indent(ln) == Slice(ln, 1, SpanEnd(SpaceChars, ln, 1))

\* variant of new_line: the indentation is dropped
new_line_noindent(ln, rhs) == T_this_eq \o rhs \o <<"\n">>

\* variant of new_line: the slot name is normalised, not replaced
new_line_same_slot(ln, rhs) ==
    indent(ln) \o <<"p","s","-","t","0"," ","="," ">> \o rhs \o <<"\n">>

\* new_line = f"{indent}this = {rhs}\n"
new_line(ln, rhs) == indent(ln) \o T_this_eq \o rhs \o <<"\n">>

\* the for loop of smart_replace: new_lines
new_lines(lines) ==
    [i \in 1..Len(lines) |->
        LET m == pattern(rstrip_nl(lines[i]))
        IN  IF m.matched THEN new_line(lines[i], m.rhs) ELSE lines[i]]

\* the for loop of smart_replace: changed_lines, (idx, old, new) triples
RECURSIVE changed_from(_, _)
changed_from(lines, i) ==
    IF i > Len(lines) THEN <<>>
    ELSE LET stripped == rstrip_nl(lines[i])
             m == pattern(stripped)
         IN  (IF m.matched
              THEN <<[idx |-> i, old |-> stripped,
                      new |-> rstrip_nl(new_line(lines[i], m.rhs))]>>
              ELSE <<>>) \o changed_from(lines, i + 1)

changed_lines(lines) == changed_from(lines, 1)

-----------------------------------------------------------------------------
(* Paths (os.path on POSIX).                                               *)

\* p.rfind(c), 1-based; 0 when c does not occur
RFind(p, c) ==
    LET at == {k \in 1..Len(p) : p[k] = c}
    IN  IF at = {} THEN 0 ELSE CHOOSE k \in at : \A m \in at : m <= k

\* os.path.join(dirpath, f): an absolute f stands alone, and no separator
\* is added to a dirpath that is empty or ends with one
join(dirpath, f) ==
    IF f # <<>> /\ Head(f) = "/" THEN f
    ELSE IF dirpath = <<>> \/ dirpath[Len(dirpath)] = "/" THEN dirpath \o f
    ELSE dirpath \o <<"/">> \o f

\* os.path.basename(file_path)
basename(p) == SubSeq(p, RFind(p, "/") + 1, Len(p))

\* os.path.splitext(file_path)[0]: the extension starts at the last dot of
\* the last component, unless only dots precede it there
splitext_root(p) ==
    LET sepIndex == RFind(p, "/")
        dotIndex == RFind(p, ".")
    IN  IF /\ dotIndex > sepIndex
           /\ \E k \in (sepIndex + 1)..(dotIndex - 1) : p[k] # "."
        THEN SubSeq(p, 1, dotIndex - 1)
        ELSE p

\* backup_path = f"{os.path.splitext(file_path)[0]}_backup.bak"
backup_path(p) == splitext_root(p) \o T_backup

-----------------------------------------------------------------------------
(* The file tree the run works on.                                         *)

Root   == <<"/","m">>
SubDir == join(Root, <<"s">>)
SubSub == join(SubDir, <<"É">>)

N_a    == <<"a",".","i","n","i">>
N_A    == <<"a",".","I","N","I">>
N_dis  == <<"D","i","s","a","b","l","e","d",".","i","n","i">>
N_txt  == <<"n",".","t","x","t">>
N_c    == <<"c",".","i","n","i">>
N_bak  == <<"a">> \o T_backup
N_e    == <<"e",".","i","n","i">>
N_log  == <<"F","a","c","e","F","i","x",".","l","o","g">>

F_a   == join(Root, N_a)
F_A   == join(Root, N_A)
F_dis == join(Root, N_dis)
F_txt == join(Root, N_txt)
F_c   == join(SubDir, N_c)
F_bak == join(Root, N_bak)
F_e   == join(SubSub, N_e)
F_log == join(Root, N_log)

\* the directories os.walk(folder) visits, top-down, and the names a
\* directory can hold; os.walk lists the names of a directory in the order
\* of os.scandir, which the file system chooses, so they are a set here
Tree ==
    << [dirpath |-> Root,   filenames |-> {N_a, N_A, N_dis, N_txt, N_bak, N_log}],
       [dirpath |-> SubDir, filenames |-> {N_c}],
       [dirpath |-> SubSub, filenames |-> {N_e}] >>

\* the orders in which `for f in filenames` can meet the names S
Orders(S) ==
    {q \in [1..Cardinality(S) -> S] :
        \A i, j \in 1..Cardinality(S) : i # j => q[i] # q[j]}

\* the files smart_replace can be handed
IniPaths == {F_a, F_A, F_dis, F_c}

FaultKinds == {"read", "backup", "copy", "open", "write"}

\* contents
L_crlf  == <<"[","K","]","\r","\n">>
L_key   == <<"[","K","]","\n">>
L_m0    == <<"p","s","-","t","0"," ","="," ","R","e","s","o","u","r","c","e",
             "F","a","c","e","D","i","f","f","u","s","e">>
L_m1    == <<" "," ","p","s","-","t","1","=","R","e","s","o","u","r","c","e",
             "F","a","c","e","N","o","r","m","a","l","M","a","p",".","n"," ">>
L_m2    == <<"P","S","-","T","2"," ","="," ","R","e","s","o","u","r","c","e",
             "B","F","a","c","e","A","D","i","f","f","u","s","e">>
L_m9    == <<"\t","p","s","-","t","9"," ","="," ","R","e","s","o","u","r","c","e",
             "F","a","c","e","H","e","a","d","D","i","f","f","u","s","e">>
L_done  == <<"t","h","i","s"," ","="," ","R","e","s","o","u","r","c","e",
             "F","a","c","e","D","i","f","f","u","s","e","\n">>
L_mark  == <<";"," ">> \o T_DISABLED \o <<"\n">>
L_old   == <<"o","l","d","\n">>

C_crlf  == L_crlf \o L_m0 \o <<"\r","\n">>
C_two   == L_m1 \o <<"\n">> \o L_key \o L_m0
C_mark  == L_mark \o L_m0 \o <<"\n">>
C_none  == L_key \o L_done
C_ff    == L_m0 \o <<"\f">> \o L_key
C_B     == L_m2 \o <<"\n">>
C_dis   == L_m0 \o <<"\n">>
C_c     == L_m9 \o <<"\n">> \o L_key
\* no-break space, ps-t7=Resource<U+00E9>FaceDiffuse, next-line character,
\* [K]: a matching line that ends at U+0085
C_lat   == <<" ","p","s","-","t","7","=">> \o
           <<"R","e","s","o","u","r","c","e","é","F","a","c","e","D","i","f","f","u","s","e">> \o
           <<"">> \o L_key
C_sep   == <<"">> \o L_m0 \o <<"">> \o L_key

\* the line engine is not in use
NoParts == [ind |-> <<>>, lhs |-> <<>>, eq |-> <<>>, rhs |-> <<>>,
            trail |-> <<>>, term |-> <<>>]

-----------------------------------------------------------------------------
(* smart_replace (0.7.9), one step per file operation.                     *)

\* return False, []
ReturnFalse == [changed |-> FALSE, changed_lines |-> <<>>]

\* the state of a call smart_replace(file_path, make_backup, preview,
\* apply_changes, process_disabled) at its first statement
Frame(file_path, mb, pv, ap, pd) ==
    [file_path |-> file_path, make_backup |-> mb, preview |-> pv,
     apply_changes |-> ap, process_disabled |-> pd,
     pc |-> "read", new_lines |-> <<>>, changed_lines |-> <<>>,
     ret |-> ReturnFalse, before |-> disk[file_path]]

\* except Exception as e: print(...); return False, []
except_handler(fr) == [fr EXCEPT !.pc = "returned", !.ret = ReturnFalse]

\* variant of skip_disabled: the flag is read the wrong way round
skip_disabled_inverted(content, pd) == Contains(content, T_DISABLED) /\ pd

\* if "DISABLED" in content and not process_disabled
skip_disabled(content, pd) == Contains(content, T_DISABLED) /\ ~pd

\* variant of no_change: the early return is missing
no_change_never(cl) == FALSE

\* if not changed_lines: return False, []
no_change(cl) == cl = <<>>

\* variant of after_scan: apply_changes is not consulted (as in V7.3)
after_scan_always(ap, mb) == IF mb THEN "backup" ELSE "open"

\* where a call that found changes goes after the preview: the backup, the
\* overwrite, or straight to `return True, changed_lines`
after_scan(ap, mb) ==
    IF ~ap THEN "returned" ELSE IF mb THEN "backup" ELSE "open"

\* with open(file_path, "r") ... through the preview block
SR_Read(w) ==
    /\ w \in DOMAIN frames
    /\ frames[w].pc = "read"
    /\ LET fr      == frames[w]
           content == ReadText(disk[fr.file_path])
           lines   == splitlines(content)
           cl      == changed_lines(lines)
           found   == /\ fault[fr.file_path] # "read"
                      /\ ~skip_disabled(content, fr.process_disabled)
                      /\ ~no_change(cl)
           nxt     == after_scan(fr.apply_changes, fr.make_backup)
       IN  /\ frames' =
                [frames EXCEPT ![w] =
                    IF fault[fr.file_path] = "read" THEN except_handler(fr)
                    ELSE IF ~found
                    THEN [fr EXCEPT !.pc = "returned", !.ret = ReturnFalse]
                    ELSE [fr EXCEPT
                            !.pc = nxt,
                            !.new_lines = new_lines(lines),
                            !.changed_lines = cl,
                            !.ret = IF nxt = "returned"
                                    THEN [changed |-> TRUE, changed_lines |-> cl]
                                    ELSE ReturnFalse]]
           /\ previewed' = IF found /\ fr.preview
                           THEN previewed \cup {fr.file_path} ELSE previewed
    /\ UNCHANGED <<disk, io>>

\* n bytes written at offset 0 of a file that holds `old`
Overlay(bytes, old) ==
    bytes \o SubSeq(old, Len(bytes) + 1, Len(old))

\* shutil.copyfile(file_path, backup_path), its first half: the destination
\* is opened for writing, which creates or truncates it
SR_Backup(w) ==
    /\ w \in DOMAIN frames
    /\ frames[w].pc = "backup"
    /\ LET fr == frames[w]
           bk == backup_path(fr.file_path)
       IN  IF fault[fr.file_path] = "backup"
           THEN /\ frames' = [frames EXCEPT ![w] = except_handler(fr)]
                /\ UNCHANGED <<disk, io>>
           ELSE /\ disk' = (bk :> <<>>) @@ disk
                /\ io' = io \cup {[op |-> "backup", path |-> bk, by |-> w]}
                /\ frames' = [frames EXCEPT ![w].pc = "copy"]
    /\ UNCHANGED previewed

\* shutil.copyfile, its second half: the bytes of the file are written from
\* the start of the destination, over what another copy may have put there;
\* a copy that fails has written fewer bytes than the file holds
SR_Copy(w) ==
    /\ w \in DOMAIN frames
    /\ frames[w].pc = "copy"
    /\ LET fr    == frames[w]
           bk    == backup_path(fr.file_path)
           bytes == disk[fr.file_path]
       IN  IF fault[fr.file_path] = "copy"
           THEN /\ \E k \in 0..(Len(bytes) - 1) :
                      disk' = [disk EXCEPT
                                 ![bk] = Overlay(SubSeq(bytes, 1, k), disk[bk])]
                /\ frames' = [frames EXCEPT ![w] = except_handler(fr)]
           ELSE /\ disk' = [disk EXCEPT ![bk] = Overlay(bytes, disk[bk])]
                /\ frames' = [frames EXCEPT ![w].pc = "open"]
    /\ UNCHANGED <<io, previewed>>

\* open(file_path, "w", encoding="utf-8"): the file is truncated
SR_Open(w) ==
    /\ w \in DOMAIN frames
    /\ frames[w].pc = "open"
    /\ LET fr == frames[w]
       IN  IF fault[fr.file_path] = "open"
           THEN /\ frames' = [frames EXCEPT ![w] = except_handler(fr)]
                /\ UNCHANGED <<disk, io>>
           ELSE /\ disk' = [disk EXCEPT ![fr.file_path] = <<>>]
                /\ io' = io \cup {[op |-> "open", path |-> fr.file_path, by |-> w]}
                /\ frames' = [frames EXCEPT ![w].pc = "write"]
    /\ UNCHANGED previewed

\* f.writelines(new_lines), the close of the file, return True, changed_lines;
\* a failing write leaves the bytes written before it in the file, which
\* can end in the middle of a line
SR_Write(w) ==
    /\ w \in DOMAIN frames
    /\ frames[w].pc = "write"
    /\ LET fr    == frames[w]
           bytes == WriteText(fr.new_lines)
       IN  IF fault[fr.file_path] = "write"
           THEN /\ \E k \in 0..(Len(bytes) - 1) :
                      disk' = [disk EXCEPT ![fr.file_path] = SubSeq(bytes, 1, k)]
                /\ frames' = [frames EXCEPT ![w] = except_handler(fr)]
           ELSE /\ disk' = [disk EXCEPT ![fr.file_path] = bytes]
                /\ frames' = [frames EXCEPT ![w] =
                                [fr EXCEPT !.pc = "returned",
                                           !.ret = [changed |-> TRUE,
                                                    changed_lines |-> fr.changed_lines]]]
    /\ io' = io \cup {[op |-> "write", path |-> frames[w].file_path, by |-> w]}
    /\ UNCHANGED previewed

\* one step of the call w
SR_Step(w) ==
    SR_Read(w) \/ SR_Backup(w) \/ SR_Copy(w) \/ SR_Open(w) \/ SR_Write(w)

-----------------------------------------------------------------------------
(* Calls of smart_replace on one file, with every combination of flags.    *)

MaxCalls == 2

CallContents == {C_crlf, C_two, C_mark, C_none, C_ff, C_sep, C_lat}

\* the failures that cut a file after some of its bytes are tried on the
\* ASCII contents, where the bytes written are whole characters
InitCall ==
    /\ \E c \in CallContents :
          \/ disk = (F_a :> c)
          \/ disk = (F_a :> c) @@ (F_bak :> L_old)
    /\ orig = disk
    /\ fault \in [{F_a} -> {"none"} \cup FaultKinds]
    /\ disk[F_a] = C_lat => fault[F_a] \notin {"copy", "write"}
    /\ process_disabled = FALSE
    /\ scan_subfolders = FALSE
    /\ make_backup = FALSE
    /\ exclusion_patterns = <<>>
    /\ mpc = "call"
    /\ ini_files = <<>>
    /\ files_to_modify = <<>>
    /\ pidx = 1
    /\ previewed = {}
    /\ frames = <<>>
    /\ io = {}
    /\ line = <<>>
    /\ parts = NoParts
    /\ out = <<>>
    /\ run = 1
    /\ first_apply = <<>>

Quiet == \A w \in DOMAIN frames : frames[w].pc = "returned"

\* the number of the latest call; the frames of the latest two are kept
LastCall ==
    IF DOMAIN frames = {} THEN 0
    ELSE CHOOSE n \in DOMAIN frames : \A k \in DOMAIN frames : k <= n

\* what a call on one file leaves alone
CallKeeps ==
    UNCHANGED <<orig, fault, process_disabled, scan_subfolders, make_backup,
                exclusion_patterns, mpc, ini_files, files_to_modify, pidx,
                line, parts, out, run,
                first_apply>>

\* smart_replace(F_a, mb, pv, ap, pd) is called
Call ==
    /\ mpc = "call"
    /\ Quiet
    /\ LastCall < MaxCalls
    /\ \E mb \in BOOLEAN, pv \in BOOLEAN, ap \in BOOLEAN, pd \in BOOLEAN :
          frames' = [k \in (DOMAIN frames \cap {LastCall}) \cup {LastCall + 1} |->
                        IF k = LastCall + 1 THEN Frame(F_a, mb, pv, ap, pd)
                        ELSE frames[k]]
    /\ UNCHANGED <<disk, io, previewed>>
    /\ CallKeeps

CallRead   == mpc = "call" /\ (\E w \in DOMAIN frames : SR_Read(w)) /\ CallKeeps
CallBackup == mpc = "call" /\ (\E w \in DOMAIN frames : SR_Backup(w)) /\ CallKeeps
CallCopy   == mpc = "call" /\ (\E w \in DOMAIN frames : SR_Copy(w)) /\ CallKeeps
CallOpen   == mpc = "call" /\ (\E w \in DOMAIN frames : SR_Open(w)) /\ CallKeeps
CallWrite  == mpc = "call" /\ (\E w \in DOMAIN frames : SR_Write(w)) /\ CallKeeps

NextCall == Call \/ CallRead \/ CallBackup \/ CallCopy \/ CallOpen \/ CallWrite

SpecCall == InitCall /\ [][NextCall]_vars

-----------------------------------------------------------------------------
(* The file selector of main() (0.7.9).                                    *)

\* pattern.strip('*')
RECURSIVE strip_star(_)
strip_star(t) ==
    IF t # <<>> /\ Head(t) = "*" THEN strip_star(Tail(t))
    ELSE IF t # <<>> /\ t[Len(t)] = "*" THEN strip_star(SubSeq(t, 1, Len(t) - 1))
    ELSE t

\* path.replace('\\', '/')
slashes(path) == [i \in 1..Len(path) |-> IF path[i] = "\\" THEN "/" ELSE path[i]]

\* variant of should_exclude: nothing is excluded
should_exclude_none(path, patterns) == FALSE

\* should_exclude(path, patterns)
should_exclude(path, patterns) ==
    LET path_norm == Lower(slashes(path))
    IN  \E i \in 1..Len(patterns) :
            Contains(path_norm, Lower(strip_star(patterns[i])))

\* get_exclusion_patterns(), the folder names being those typed in
get_exclusion_patterns(names) ==
    << <<"*">> \o T_backup >> \o
    [i \in 1..Len(names) |-> <<"*">> \o names[i] \o <<"*">>]

\* variant of is_disabled_file: the file name is tested as written
is_disabled_file_cased(file_path) ==
    \/ Contains(basename(file_path), T_disabled)
    \/ /\ fault[file_path] # "read"
       /\ Contains(ReadText(disk[file_path]), T_DISABLED)

\* is_disabled_file(file_path); a file that cannot be read is not disabled
is_disabled_file(file_path) ==
    \/ Contains(Lower(basename(file_path)), T_disabled)
    \/ /\ fault[file_path] # "read"
       /\ Contains(ReadText(disk[file_path]), T_DISABLED)

\* the inner loop of the collection: the lists the files of one directory
\* can add to ini_files, one for every order of the listing
candidates(dirpath, filenames) ==
    LET kept == {f \in filenames :
                    /\ join(dirpath, f) \in DOMAIN disk
                    /\ EndsWith(Lower(f), T_ini)
                    /\ (~is_disabled_file(join(dirpath, f)) \/ process_disabled)}
    IN  {[i \in 1..Cardinality(kept) |-> join(dirpath, q[i])] : q \in Orders(kept)}

\* variant of walk_ends: the loop never breaks
walk_ends_never(subfolders) == FALSE

\* if not scan_subfolders: break
walk_ends(subfolders) == ~subfolders

\* the os.walk loop of main(): an excluded directory is skipped with
\* `continue`, the loop ends after the first directory it has listed when
\* subfolders are not scanned; the values ini_files can have after it
RECURSIVE collect(_, _)
collect(i, acc) ==
    IF i > Len(Tree) THEN {acc}
    ELSE IF should_exclude(Tree[i].dirpath, exclusion_patterns)
    THEN collect(i + 1, acc)
    ELSE UNION {IF walk_ends(scan_subfolders) THEN {acc \o c}
                ELSE collect(i + 1, acc \o c) :
                    c \in candidates(Tree[i].dirpath, Tree[i].filenames)}

-----------------------------------------------------------------------------
(* The file selector of main() (0.7.6): relative paths, files tested too.  *)

\* os.path.relpath(path, folder) for folder = Root and a path at or below it
relpath(path) ==
    IF path = Root THEN <<".">> ELSE SubSeq(path, Len(Root) + 2, Len(path))

\* fnmatch.fnmatch(name, pat) on POSIX, for patterns of `*`, `?` and
\* literal characters
RECURSIVE fnmatch(_, _)
fnmatch(name, pat) ==
    IF pat = <<>> THEN name = <<>>
    ELSE IF Head(pat) = "*"
    THEN fnmatch(name, Tail(pat)) \/ (name # <<>> /\ fnmatch(Tail(name), pat))
    ELSE /\ name # <<>>
         /\ (Head(pat) = "?" \/ Head(pat) = Head(name))
         /\ fnmatch(Tail(name), Tail(pat))

T_bak == <<".","b","a","k">>

\* should_exclude(path, exclusion_patterns) of 0.7.6
should_exclude_v076(path, patterns) ==
    LET path_norm == slashes(path)
    IN  \E i \in 1..Len(patterns) :
            IF EndsWith(patterns[i], T_bak)
            THEN fnmatch(Lower(path_norm), Lower(patterns[i]))
            ELSE Contains(Lower(path_norm), Lower(strip_star(patterns[i])))

\* the inner loop of the collection of 0.7.6: the lists the files of one
\* directory can add to ini_files
candidates_v076(dirpath, filenames) ==
    LET kept == {f \in filenames :
                    /\ join(dirpath, f) \in DOMAIN disk
                    /\ EndsWith(Lower(f), T_ini)
                    /\ ~should_exclude_v076(relpath(join(dirpath, f)),
                                            exclusion_patterns)
                    /\ (~is_disabled_file(join(dirpath, f)) \/ process_disabled)}
    IN  {[i \in 1..Cardinality(kept) |-> join(dirpath, q[i])] : q \in Orders(kept)}

\* the os.walk loop of main() of 0.7.6
RECURSIVE collect_v076(_, _)
collect_v076(i, acc) ==
    IF i > Len(Tree) THEN {acc}
    ELSE IF should_exclude_v076(relpath(Tree[i].dirpath), exclusion_patterns)
    THEN collect_v076(i + 1, acc)
    ELSE UNION {IF walk_ends(scan_subfolders) THEN {acc \o c}
                ELSE collect_v076(i + 1, acc \o c) :
                    c \in candidates_v076(Tree[i].dirpath, Tree[i].filenames)}

-----------------------------------------------------------------------------
(* The log of 0.7.6: FaceFix.log in the working directory, which is the    *)
(* folder that is scanned.                                                 *)

\* %(asctime)s, the reading of the clock, and the text of a traceback: each
\* is one opaque character of the log
T_asctime   == <<"<asctime>">>
T_traceback == <<"<traceback>">>

\* format="%(asctime)s %(levelname)s: %(message)s", and the "\n" the
\* handler ends a record with
log_record(levelname, message) ==
    T_asctime \o <<" ">> \o levelname \o <<":"," ">> \o message \o <<"\n">>

\* f"{PRODUCT_NAME} v{VERSION} started"
T_started ==
    <<"F","a","c","e","F","i","x"," ","v","0",".","7",".","6"," ","s","t","a","r","t","e","d">>

\* f"{PRODUCT_NAME} v{VERSION} — by {AUTHOR}", the dash being one character
T_banner ==
    <<"F","a","c","e","F","i","x"," ","v","0",".","7",".","6"," ">> \o <<"<em dash>">> \o
    <<" ","b","y"," ","S","a","n","d","d","i","n","o">>

\* setup_logging() and line 171: logging.FileHandler opens FaceFix.log for
\* appending, which creates it, and two INFO records are written
setup_logging(d) ==
    LET old == IF F_log \in DOMAIN d THEN d[F_log] ELSE <<>>
    IN  (F_log :> old \o log_record(<<"I","N","F","O">>, T_started)
                     \o log_record(<<"I","N","F","O">>, T_banner)) @@ d

\* logging.exception(f"Error processing '{file_path}'"): an ERROR record
\* with the traceback under it
log_exception(d, file_path) ==
    [d EXCEPT ![F_log] =
        @ \o log_record(<<"E","R","R","O","R">>,
                <<"E","r","r","o","r"," ","p","r","o","c","e","s","s","i","n","g"," ","'">>
                \o file_path \o <<"'">>)
          \o T_traceback \o <<"\n">>]

-----------------------------------------------------------------------------
(* main() of 0.7.9: collect, preview, confirm, apply in a thread pool.     *)

\* folder names typed in at the exclusion prompt
ExcludeChoices == { <<>>, << <<"s">> >> }

\* the I/O failure the environment can hold: none, or one kind for a.ini
Faults ==
    {[p \in IniPaths |-> IF p = F_a THEN k ELSE "none"] :
        k \in {"none"} \cup FaultKinds}

\* a.ini and a.INI share a backup path; Disabled.ini has a matching line;
\* folder names are typed in when subfolders are scanned
Init ==
    /\ \E ca \in {C_crlf, C_mark, C_none}, cA \in {C_B, C_none} :
          disk = (F_a :> ca) @@ (F_A :> cA) @@ (F_dis :> C_dis) @@
                 (F_txt :> C_dis) @@ (F_c :> C_none)
    /\ orig = disk
    /\ fault \in Faults
    /\ process_disabled \in BOOLEAN
    /\ scan_subfolders \in BOOLEAN
    /\ make_backup \in BOOLEAN
    /\ \E names \in (IF scan_subfolders THEN ExcludeChoices ELSE { <<>> }) :
          exclusion_patterns = get_exclusion_patterns(names)
    /\ mpc = "collect"
    /\ ini_files = <<>>
    /\ files_to_modify = <<>>
    /\ pidx = 1
    /\ previewed = {}
    /\ frames = <<>>
    /\ io = {}
    /\ line = <<>>
    /\ parts = NoParts
    /\ out = <<>>
    /\ run = 1
    /\ first_apply = <<>>

\* what no step of the run changes
RunKeeps ==
    UNCHANGED <<orig, fault, process_disabled, scan_subfolders, make_backup,
                exclusion_patterns, line, parts, out, run,
                first_apply>>

\* a call has ended, by a return or by an exception that left it
Ended(fr) == fr.pc \in {"returned", "raised"}

\* lines 152-169
CollectFiles ==
    /\ mpc = "collect"
    /\ ini_files' \in collect(1, <<>>)
    /\ mpc' = IF ini_files' = <<>> THEN "exit" ELSE "preview"
    /\ UNCHANGED <<disk, files_to_modify, pidx, previewed, frames, io>>
    /\ RunKeeps

\* line 175: smart_replace(ini_file, make_backup, preview=True, ...) is called
PreviewCall ==
    /\ mpc = "preview"
    /\ frames = <<>>
    /\ pidx <= Len(ini_files)
    /\ frames' = (0 :> Frame(ini_files[pidx], make_backup, TRUE, FALSE,
                              process_disabled))
    /\ UNCHANGED <<disk, mpc, ini_files, files_to_modify, pidx, previewed, io>>
    /\ RunKeeps

PreviewRead ==
    /\ mpc = "preview"
    /\ SR_Read(0)
    /\ UNCHANGED <<mpc, ini_files, files_to_modify, pidx>>
    /\ RunKeeps

\* lines 175-187: the result of the preview call is used, and after the
\* last file the run asks for the confirmation or ends; an exception that
\* leaves smart_replace ends main()
PreviewReturn ==
    /\ mpc = "preview"
    /\ 0 \in DOMAIN frames
    /\ Ended(frames[0])
    /\ files_to_modify' =
          IF frames[0].pc = "returned" /\ frames[0].ret.changed
          THEN Append(files_to_modify, frames[0].file_path)
          ELSE files_to_modify
    /\ pidx' = pidx + 1
    /\ frames' = <<>>
    /\ mpc' = IF frames[0].pc = "raised" THEN "aborted"
              ELSE IF pidx' <= Len(ini_files) THEN "preview"
              ELSE IF files_to_modify' = <<>> THEN "exit"
              ELSE "confirm"
    /\ UNCHANGED <<disk, ini_files, previewed, io>>
    /\ RunKeeps

\* lines 184-201: the answer to "Apply changes to N file(s)?"; on "y" one
\* task per file is submitted to the thread pool
ConfirmApply ==
    /\ mpc = "confirm"
    /\ \E yes \in BOOLEAN :
          IF yes
          THEN /\ mpc' = "apply"
               /\ frames' = [w \in 1..Len(files_to_modify) |->
                               Frame(files_to_modify[w], make_backup, FALSE,
                                     TRUE, process_disabled)]
          ELSE /\ mpc' = "cancelled"
               /\ UNCHANGED frames
    /\ UNCHANGED <<disk, ini_files, files_to_modify, pidx, previewed, io>>
    /\ RunKeeps

WorkerKeeps ==
    /\ UNCHANGED <<mpc, ini_files, files_to_modify, pidx>>
    /\ RunKeeps

\* the tasks of the pool, each a call of smart_replace, step by step
WorkerRead   == mpc = "apply" /\ (\E w \in DOMAIN frames : SR_Read(w)) /\ WorkerKeeps
WorkerBackup == mpc = "apply" /\ (\E w \in DOMAIN frames : SR_Backup(w)) /\ WorkerKeeps
WorkerCopy   == mpc = "apply" /\ (\E w \in DOMAIN frames : SR_Copy(w)) /\ WorkerKeeps
WorkerOpen   == mpc = "apply" /\ (\E w \in DOMAIN frames : SR_Open(w)) /\ WorkerKeeps
WorkerWrite  == mpc = "apply" /\ (\E w \in DOMAIN frames : SR_Write(w)) /\ WorkerKeeps

\* the `with ThreadPoolExecutor` block ends when every task has ended
Finish ==
    /\ mpc = "apply"
    /\ \A w \in DOMAIN frames : Ended(frames[w])
    /\ mpc' = "done"
    /\ UNCHANGED <<disk, ini_files, files_to_modify, pidx, previewed, frames, io>>
    /\ RunKeeps

\* the process is killed while the tasks run: the files stay as they are
Crash ==
    /\ mpc = "apply"
    /\ mpc' = "crashed"
    /\ frames' = <<>>
    /\ UNCHANGED <<disk, ini_files, files_to_modify, pidx, previewed, io>>
    /\ RunKeeps

Next ==
    \/ CollectFiles
    \/ PreviewCall
    \/ PreviewRead
    \/ PreviewReturn
    \/ ConfirmApply
    \/ WorkerRead
    \/ WorkerBackup
    \/ WorkerCopy
    \/ WorkerOpen
    \/ WorkerWrite
    \/ Finish
    \/ Crash

Spec == Init /\ [][Next]_vars

-----------------------------------------------------------------------------
(* main() of 0.7.9 run again and again on the same directory, with the     *)
(* same answers, backups enabled.                                          *)

\* at most this many runs
MaxRuns == 2

InitRuns ==
    /\ Init
    /\ make_backup
    /\ exclusion_patterns = get_exclusion_patterns(<<>>)

\* the files the tasks of the finished run rewrote
AppliedNow ==
    IF mpc = "done"
    THEN {frames[w].file_path : w \in {v \in DOMAIN frames : frames[v].ret.changed}}
    ELSE {}

\* the program is started again after a complete run; what the files that
\* run rewrote hold, and what their backups hold, is noted
Rerun ==
    /\ mpc \in {"done", "exit", "cancelled"}
    /\ run < MaxRuns
    /\ run' = run + 1
    /\ first_apply' =
          [p \in DOMAIN first_apply \cup AppliedNow |->
              IF p \in DOMAIN first_apply THEN first_apply[p]
              ELSE [file |-> disk[p], backup |-> disk[backup_path(p)]]]
    /\ orig' = disk
    /\ mpc' = "collect"
    /\ ini_files' = <<>>
    /\ files_to_modify' = <<>>
    /\ pidx' = 1
    /\ previewed' = {}
    /\ frames' = <<>>
    /\ io' = {}
    /\ UNCHANGED <<disk, fault, process_disabled, scan_subfolders, make_backup,
                   exclusion_patterns, line, parts, out>>

NextRuns == Next \/ Rerun

SpecRuns == InitRuns /\ [][NextRuns]_vars

-----------------------------------------------------------------------------
(* The file selectors alone, on a tree three directories deep.             *)

\* at most this many folder names are typed in at the exclusion prompt
MaxExcluded == 1

\* the folder names that may be typed in
FolderNames ==
    { <<"s">>, <<"S">>, <<"é">>, <<"É">>, <<"m">>, <<".">>, <<"a">>, <<"*">>,
      <<"s","/","é">> }

RECURSIVE NameLists(_)
NameLists(n) ==
    IF n = 0 THEN { <<>> }
    ELSE NameLists(n - 1) \cup
         {Append(l, x) : l \in {m \in NameLists(n - 1) : Len(m) = n - 1},
                         x \in FolderNames}

\* the files a selector may be asked about
SelectPaths == IniPaths \cup {F_e}

\* a local of main() that no statement has assigned yet
Unbound == "unbound"

\* 0.7.9 is taken up where its collection begins, its questions answered;
\* 0.7.6 at the first line of main(), since it writes before it asks
InitSelect ==
    /\ \E ca \in {C_crlf, C_mark} :
          LET files == (F_a :> ca) @@ (F_A :> C_B) @@ (F_dis :> C_dis) @@
                       (F_txt :> C_dis) @@ (F_c :> C_c) @@ (F_e :> C_dis)
          IN  disk \in {files, files @@ (F_bak :> L_old)}
    /\ orig = disk
    /\ \E fa \in {"none", "read"} :
          fault = [p \in SelectPaths |-> IF p = F_a THEN fa ELSE "none"]
    /\ make_backup = FALSE
    /\ \/ /\ mpc = "select"
          /\ process_disabled \in BOOLEAN
          /\ scan_subfolders \in BOOLEAN
          /\ \E names \in NameLists(MaxExcluded) :
                exclusion_patterns = get_exclusion_patterns(names)
       \/ /\ mpc = "v076_start"
          /\ process_disabled = Unbound
          /\ scan_subfolders = Unbound
          /\ exclusion_patterns = Unbound
    /\ ini_files = <<>>
    /\ files_to_modify = <<>>
    /\ pidx = 1
    /\ previewed = {}
    /\ frames = <<>>
    /\ io = {}
    /\ line = <<>>
    /\ parts = NoParts
    /\ out = <<>>
    /\ run = 1
    /\ first_apply = <<>>

SelectKeeps ==
    UNCHANGED <<orig, fault, process_disabled, scan_subfolders,
                make_backup, exclusion_patterns, files_to_modify, pidx,
                previewed, frames, io, line, parts, out, run,
                first_apply>>

\* lines 152-164 of 0.7.9
SelectV079 ==
    /\ mpc = "select"
    /\ ini_files' \in collect(1, <<>>)
    /\ mpc' = "selected_v079"
    /\ UNCHANGED disk
    /\ SelectKeeps

\* what the steps of main() of 0.7.6 before its collection leave alone
V076Keeps ==
    UNCHANGED <<orig, fault, make_backup, ini_files, files_to_modify, pidx,
                previewed, frames, io, line, parts, out, run, first_apply>>

\* lines 170-179 of 0.7.6: the log is opened and its first two records are
\* written; main() then waits at its first question, nothing being asked
\* or collected yet
V076Logging ==
    /\ mpc = "v076_start"
    /\ disk' = setup_logging(disk)
    /\ mpc' = "v076_process_disabled"
    /\ UNCHANGED <<process_disabled, scan_subfolders, exclusion_patterns>>
    /\ V076Keeps

\* line 182: the answer to 'Process disabled files?'
V076ProcessDisabled ==
    /\ mpc = "v076_process_disabled"
    /\ process_disabled' \in BOOLEAN
    /\ mpc' = "v076_scan_subfolders"
    /\ UNCHANGED <<disk, scan_subfolders, exclusion_patterns>>
    /\ V076Keeps

\* lines 184-188: the answer to 'Scan subfolders?'
V076ScanSubfolders ==
    /\ mpc = "v076_scan_subfolders"
    /\ scan_subfolders' \in BOOLEAN
    /\ mpc' = "v076_settings"
    /\ UNCHANGED <<disk, process_disabled, exclusion_patterns>>
    /\ V076Keeps

\* lines 190-194: 'Are these settings correct?'; any answer but y ends the
\* run, the log written and the folder never walked
V076SettingsCorrect ==
    /\ mpc = "v076_settings"
    /\ \E confirm \in BOOLEAN :
          mpc' = IF confirm THEN "v076_exclude" ELSE "cancelled"
    /\ UNCHANGED <<disk, process_disabled, scan_subfolders, exclusion_patterns>>
    /\ V076Keeps

\* line 197, get_exclusion_patterns() of 0.7.6, lines 93-109: the folder
\* names typed in, here any list of NameLists
SelectExclusionsV076 ==
    /\ mpc = "v076_exclude"
    /\ \E names \in NameLists(MaxExcluded) :
          exclusion_patterns' = get_exclusion_patterns(names)
    /\ mpc' = "v076_collect"
    /\ UNCHANGED <<disk, process_disabled, scan_subfolders>>
    /\ V076Keeps

\* lines 200-236 of 0.7.6: the folder is walked; the log is left as it is
SelectV076 ==
    /\ mpc = "v076_collect"
    /\ ini_files' \in collect_v076(1, <<>>)
    /\ mpc' = "selected_v076"
    /\ UNCHANGED disk
    /\ SelectKeeps

NextSelect ==
    \/ SelectV079
    \/ V076Logging
    \/ V076ProcessDisabled
    \/ V076ScanSubfolders
    \/ V076SettingsCorrect
    \/ SelectExclusionsV076
    \/ SelectV076

SpecSelect == InitSelect /\ [][NextSelect]_vars

-----------------------------------------------------------------------------
(* FaceFix V7.3: smart_replace(file_path, make_backup, preview) has no     *)
(* apply flag; main() previews, asks for a confirmation, then applies,     *)
(* one file after another.                                                 *)

\* f.readlines() in text mode: the lines end at "\n" only
RECURSIVE readlines(_)
readlines(s) ==
    IF s = <<>> THEN <<>>
    ELSE LET brk == {k \in 1..Len(s) : s[k] = "\n"}
             e   == IF brk = {} THEN Len(s)
                    ELSE CHOOSE k \in brk : \A m \in brk : k <= m
         IN  <<SubSeq(s, 1, e)>> \o readlines(SubSeq(s, e + 1, Len(s)))

\* the for loop of smart_replace of V7.3: new_lines
new_lines_v73(lines) ==
    [i \in 1..Len(lines) |->
        LET m == pattern_four(rstrip_nl(lines[i]))
        IN  IF m.matched THEN new_line(lines[i], m.rhs) ELSE lines[i]]

\* the for loop of smart_replace of V7.3: changed_lines
RECURSIVE changed_from_v73(_, _)
changed_from_v73(lines, i) ==
    IF i > Len(lines) THEN <<>>
    ELSE LET stripped == rstrip_nl(lines[i])
             m == pattern_four(stripped)
         IN  (IF m.matched
              THEN <<[idx |-> i, old |-> stripped,
                      new |-> rstrip_nl(new_line(lines[i], m.rhs))]>>
              ELSE <<>>) \o changed_from_v73(lines, i + 1)

changed_lines_v73(lines) == changed_from_v73(lines, 1)

\* the call smart_replace(file_path, make_backup, preview) of V7.3 at its
\* first statement; it always applies and knows no DISABLED marker
Frame_v73(file_path, mb, pv) == Frame(file_path, mb, pv, TRUE, TRUE)

\* V7.3, with open(file_path, "r") ... through the preview block: a call
\* that found changes goes on to the backup and the overwrite
SR_Read_v73(w) ==
    /\ w \in DOMAIN frames
    /\ frames[w].pc = "read"
    /\ LET fr    == frames[w]
           lines == readlines(ReadText(disk[fr.file_path]))
           cl    == changed_lines_v73(lines)
           found == fault[fr.file_path] # "read" /\ ~no_change(cl)
       IN  /\ frames' =
                [frames EXCEPT ![w] =
                    IF fault[fr.file_path] = "read" THEN except_handler(fr)
                    ELSE IF ~found
                    THEN [fr EXCEPT !.pc = "returned", !.ret = ReturnFalse]
                    ELSE [fr EXCEPT
                            !.pc = IF fr.make_backup THEN "backup" ELSE "open",
                            !.new_lines = new_lines_v73(lines),
                            !.changed_lines = cl]]
           /\ previewed' = IF found /\ fr.preview
                           THEN previewed \cup {fr.file_path} ELSE previewed
    /\ UNCHANGED <<disk, io>>

\* the inner loop of the collection of V7.3
candidates_v73(dirpath, filenames) ==
    LET kept == {f \in filenames :
                    /\ join(dirpath, f) \in DOMAIN disk
                    /\ EndsWith(Lower(f), T_ini)
                    /\ ~Contains(Lower(f), T_disabled)}
    IN  {[i \in 1..Cardinality(kept) |-> join(dirpath, q[i])] : q \in Orders(kept)}

\* the os.walk loop of main() of V7.3
RECURSIVE collect_v73(_, _)
collect_v73(i, acc) ==
    IF i > Len(Tree) THEN {acc}
    ELSE UNION {IF walk_ends(scan_subfolders) THEN {acc \o c}
                ELSE collect_v73(i + 1, acc \o c) :
                    c \in candidates_v73(Tree[i].dirpath, Tree[i].filenames)}

InitV73 ==
    /\ \E ca \in {C_crlf, C_two, C_none}, cA \in {C_B, C_none} :
          LET files == (F_a :> ca) @@ (F_A :> cA) @@ (F_dis :> C_dis) @@
                       (F_txt :> C_dis) @@ (F_c :> C_c)
          IN  disk \in {files, files @@ (F_bak :> L_old)}
    /\ orig = disk
    /\ fault \in Faults
    /\ process_disabled = FALSE
    /\ scan_subfolders \in BOOLEAN
    /\ make_backup \in BOOLEAN
    /\ exclusion_patterns = <<>>
    /\ mpc = "v73_collect"
    /\ ini_files = <<>>
    /\ files_to_modify = <<>>
    /\ pidx = 1
    /\ previewed = {}
    /\ frames = <<>>
    /\ io = {}
    /\ line = <<>>
    /\ parts = NoParts
    /\ out = <<>>
    /\ run = 1
    /\ first_apply = <<>>

\* lines 105-117 of V7.3
V73Collect ==
    /\ mpc = "v73_collect"
    /\ ini_files' \in collect_v73(1, <<>>)
    /\ mpc' = IF ini_files' = <<>> THEN "exit" ELSE "v73_preview"
    /\ UNCHANGED <<disk, files_to_modify, pidx, previewed, frames, io>>
    /\ RunKeeps

\* line 123: smart_replace(ini_file, make_backup=make_backup, preview=True)
V73PreviewCall ==
    /\ mpc = "v73_preview"
    /\ frames = <<>>
    /\ pidx <= Len(ini_files)
    /\ frames' = (0 :> Frame_v73(ini_files[pidx], make_backup, TRUE))
    /\ UNCHANGED <<disk, mpc, ini_files, files_to_modify, pidx, previewed, io>>
    /\ RunKeeps

\* line 142: smart_replace(ini_file, make_backup=make_backup, preview=False)
V73ApplyCall ==
    /\ mpc = "v73_apply"
    /\ frames = <<>>
    /\ pidx <= Len(files_to_modify)
    /\ frames' = (0 :> Frame_v73(files_to_modify[pidx], make_backup, FALSE))
    /\ UNCHANGED <<disk, mpc, ini_files, files_to_modify, pidx, previewed, io>>
    /\ RunKeeps

V73Running == mpc \in {"v73_preview", "v73_apply"}

\* the steps of the call in progress
V73Read   == V73Running /\ SR_Read_v73(0) /\ WorkerKeeps
V73Backup == V73Running /\ SR_Backup(0) /\ WorkerKeeps
V73Copy   == V73Running /\ SR_Copy(0) /\ WorkerKeeps
V73Open   == V73Running /\ SR_Open(0) /\ WorkerKeeps
V73Write  == V73Running /\ SR_Write(0) /\ WorkerKeeps

\* lines 121-130: the result of a preview call; after the last file the
\* run ends or asks for the final confirmation
V73PreviewReturn ==
    /\ mpc = "v73_preview"
    /\ 0 \in DOMAIN frames
    /\ Ended(frames[0])
    /\ files_to_modify' =
          IF frames[0].ret.changed
          THEN Append(files_to_modify, frames[0].file_path)
          ELSE files_to_modify
    /\ pidx' = pidx + 1
    /\ frames' = <<>>
    /\ mpc' = IF pidx' <= Len(ini_files) THEN "v73_preview"
              ELSE IF files_to_modify' = <<>> THEN "exit"
              ELSE "v73_confirm"
    /\ UNCHANGED <<disk, ini_files, previewed, io>>
    /\ RunKeeps

\* lines 132-137: the final confirmation
V73Confirm ==
    /\ mpc = "v73_confirm"
    /\ \E yes \in BOOLEAN :
          mpc' = IF yes THEN "v73_apply" ELSE "cancelled"
    /\ pidx' = 1
    /\ UNCHANGED <<disk, ini_files, files_to_modify, previewed, frames, io>>
    /\ RunKeeps

\* lines 139-149: the result of an apply call; after the last file the run
\* is finished
V73ApplyReturn ==
    /\ mpc = "v73_apply"
    /\ 0 \in DOMAIN frames
    /\ Ended(frames[0])
    /\ pidx' = pidx + 1
    /\ frames' = <<>>
    /\ mpc' = IF pidx' <= Len(files_to_modify) THEN "v73_apply" ELSE "done"
    /\ UNCHANGED <<disk, ini_files, files_to_modify, previewed, io>>
    /\ RunKeeps

NextV73 ==
    \/ V73Collect
    \/ V73PreviewCall
    \/ V73Read
    \/ V73Backup
    \/ V73Copy
    \/ V73Open
    \/ V73Write
    \/ V73PreviewReturn
    \/ V73Confirm
    \/ V73ApplyCall
    \/ V73ApplyReturn

SpecV73 == InitV73 /\ [][NextV73]_vars

-----------------------------------------------------------------------------
(* The line engine on one-line inputs: the content of a one-line file is   *)
(* read, split and rewritten as smart_replace does.                        *)

\* parts a one-line input is assembled from; the *Ok sets are the parts
\* the ps-tN line grammar of the specification allows. Among them are the
\* no-break space U+00A0 as indentation and as trailing blank, the
\* next-line character U+0085 as line terminator, identifiers with letters
\* above U+007F and one with the multiplication sign U+00D7, which is no
\* word character
IndentParts == { <<>>, <<" "," ">>, <<"\t"," ">>, <<"">>, <<" ">> }
LhsOk  == { <<"p","s","-","t","0">>, <<"P","S","-","T","1","2">> }
LhsBad == { <<"p","s","-","t">>, <<"t","h","i","s">>,
            <<"x","p","s","-","t","0">> }
EqParts == { <<"=">>, <<" ","="," ">>, <<"\t","="," "," ">> }
RhsOk  == { <<"R","e","s","o","u","r","c","e","F","a","c","e",
              "D","i","f","f","u","s","e">>,
            <<"R","e","s","o","u","r","c","e","S","o","m","e","F","a","c","e",
              "H","e","a","d","N","o","r","m","a","l","M","a","p",
              ".","1","0","2","4">>,
            <<"r","e","s","o","u","r","c","e","X","f","a","c","e","A",
              "d","i","f","f","u","s","e">>,
            <<"R","e","s","o","u","r","c","e","F","a","c","e",
              "N","o","r","m","a","l","M","a","p","_","2",".","a">>,
            <<"R","e","s","o","u","r","c","e","É","F","a","c","e","D","i","f","f","u","s","e",".","µ">>,
            <<"R","E","S","O","U","R","C","E","ß","F","A","C","E","Þ","N","O","R","M","A","L","M","A","P">> }
RhsBad == { <<"R","e","s","o","u","r","c","e","B","o","d","y",
              "D","i","f","f","u","s","e">>,
            <<"R","e","s","o","u","r","c","e",".","F","a","c","e",
              "D","i","f","f","u","s","e">>,
            <<"R","e","s","o","u","r","c","e","×","F","a","c","e","D","i","f","f","u","s","e">> }
TrailOk  == { <<>>, <<" ","\t">>, <<"">>, <<" ">> }
TrailBad == { <<" ",";","c">> }
TermParts == { <<"\n">>, <<"\r","\n">>, <<"\r">>, <<"\f">>, <<"">>, <<"">>,
               <<"">>, <<>> }

LineParts ==
    [ind : IndentParts, lhs : LhsOk \cup LhsBad, eq : EqParts,
     rhs : RhsOk \cup RhsBad, trail : TrailOk \cup TrailBad, term : TermParts]

Assemble(p) == p.ind \o p.lhs \o p.eq \o p.rhs \o p.trail \o p.term

Idle ==
    /\ disk = <<>>
    /\ orig = <<>>
    /\ fault = <<>>
    /\ process_disabled = FALSE
    /\ scan_subfolders = FALSE
    /\ make_backup = FALSE
    /\ exclusion_patterns = <<>>
    /\ ini_files = <<>>
    /\ files_to_modify = <<>>
    /\ pidx = 1
    /\ previewed = {}
    /\ frames = <<>>
    /\ io = {}

InitLine ==
    /\ Idle
    /\ mpc = "line"
    /\ parts \in LineParts
    /\ line = Assemble(parts)
    /\ out = <<>>
    /\ run = 1
    /\ first_apply = <<>>

\* smart_replace lines 44-71 on the one-line input
RewriteLine ==
    /\ mpc = "line"
    /\ out' = new_lines(splitlines(ReadText(line)))
    /\ mpc' = "line_done"
    /\ UNCHANGED <<disk, orig, fault, process_disabled, scan_subfolders,
                   make_backup, exclusion_patterns, ini_files,
                   files_to_modify, pidx, previewed, frames, io, line, parts,
                   run, first_apply>>

\* the for loop of smart_replace of 0.7.6: new_lines (the loop of V7.3)
new_lines_v076(lines) == new_lines_v73(lines)

\* smart_replace of 0.7.6, lines 40-64, on the one-line input
RewriteLineFour ==
    /\ mpc = "line"
    /\ out' = new_lines_v076(splitlines(ReadText(line)))
    /\ mpc' = "line_done_four"
    /\ UNCHANGED <<disk, orig, fault, process_disabled, scan_subfolders,
                   make_backup, exclusion_patterns, ini_files,
                   files_to_modify, pidx, previewed, frames, io, line, parts,
                   run, first_apply>>

NextLine == RewriteLine \/ RewriteLineFour

SpecLine == InitLine /\ [][NextLine]_vars

-----------------------------------------------------------------------------
(* main() of 0.7.6: as 0.7.9 previews, confirms and applies in a thread    *)
(* pool, with the four-name pattern and a log record for every failure.    *)

\* the for loop of smart_replace of 0.7.6: changed_lines (the loop of V7.3)
changed_lines_v076(lines) == changed_lines_v73(lines)

\* 0.7.6: an exception was raised in the try block and its handler has
\* not run yet
raised_v076(fr) == [fr EXCEPT !.pc = "except"]

\* 0.7.6, except Exception as e: logging.exception(...) appends the ERROR
\* record to the log, then print(...); return False, []
SR_Except_v076(w) ==
    /\ w \in DOMAIN frames
    /\ frames[w].pc = "except"
    /\ disk' = log_exception(disk, frames[w].file_path)
    /\ frames' = [frames EXCEPT ![w] = except_handler(frames[w])]
    /\ UNCHANGED <<io, previewed>>

\* 0.7.6, with open(file_path, "r") ... through the preview block
SR_Read_v076(w) ==
    /\ w \in DOMAIN frames
    /\ frames[w].pc = "read"
    /\ LET fr      == frames[w]
           content == ReadText(disk[fr.file_path])
           lines   == splitlines(content)
           cl      == changed_lines_v076(lines)
           found   == /\ fault[fr.file_path] # "read"
                      /\ ~skip_disabled(content, fr.process_disabled)
                      /\ ~no_change(cl)
           nxt     == after_scan(fr.apply_changes, fr.make_backup)
       IN  /\ frames' =
                [frames EXCEPT ![w] =
                    IF fault[fr.file_path] = "read" THEN raised_v076(fr)
                    ELSE IF ~found
                    THEN [fr EXCEPT !.pc = "returned", !.ret = ReturnFalse]
                    ELSE [fr EXCEPT
                            !.pc = nxt,
                            !.new_lines = new_lines_v076(lines),
                            !.changed_lines = cl,
                            !.ret = IF nxt = "returned"
                                    THEN [changed |-> TRUE, changed_lines |-> cl]
                                    ELSE ReturnFalse]]
           /\ previewed' = IF found /\ fr.preview
                           THEN previewed \cup {fr.file_path} ELSE previewed
    /\ UNCHANGED <<disk, io>>

\* 0.7.6, shutil.copyfile, its first half
SR_Backup_v076(w) ==
    /\ w \in DOMAIN frames
    /\ frames[w].pc = "backup"
    /\ LET fr == frames[w]
           bk == backup_path(fr.file_path)
       IN  IF fault[fr.file_path] = "backup"
           THEN /\ frames' = [frames EXCEPT ![w] = raised_v076(fr)]
                /\ UNCHANGED <<disk, io>>
           ELSE /\ disk' = (bk :> <<>>) @@ disk
                /\ io' = io \cup {[op |-> "backup", path |-> bk, by |-> w]}
                /\ frames' = [frames EXCEPT ![w].pc = "copy"]
    /\ UNCHANGED previewed

\* 0.7.6, shutil.copyfile, its second half
SR_Copy_v076(w) ==
    /\ w \in DOMAIN frames
    /\ frames[w].pc = "copy"
    /\ LET fr    == frames[w]
           bk    == backup_path(fr.file_path)
           bytes == disk[fr.file_path]
       IN  IF fault[fr.file_path] = "copy"
           THEN /\ \E k \in 0..(Len(bytes) - 1) :
                      disk' = [disk EXCEPT
                                 ![bk] = Overlay(SubSeq(bytes, 1, k), disk[bk])]
                /\ frames' = [frames EXCEPT ![w] = raised_v076(fr)]
           ELSE /\ disk' = [disk EXCEPT ![bk] = Overlay(bytes, disk[bk])]
                /\ frames' = [frames EXCEPT ![w].pc = "open"]
    /\ UNCHANGED <<io, previewed>>

\* 0.7.6, open(file_path, "w", encoding="utf-8")
SR_Open_v076(w) ==
    /\ w \in DOMAIN frames
    /\ frames[w].pc = "open"
    /\ LET fr == frames[w]
       IN  IF fault[fr.file_path] = "open"
           THEN /\ frames' = [frames EXCEPT ![w] = raised_v076(fr)]
                /\ UNCHANGED <<disk, io>>
           ELSE /\ disk' = [disk EXCEPT ![fr.file_path] = <<>>]
                /\ io' = io \cup {[op |-> "open", path |-> fr.file_path, by |-> w]}
                /\ frames' = [frames EXCEPT ![w].pc = "write"]
    /\ UNCHANGED previewed

\* 0.7.6, f.writelines(new_lines), the close, return True, changed_lines
SR_Write_v076(w) ==
    /\ w \in DOMAIN frames
    /\ frames[w].pc = "write"
    /\ LET fr    == frames[w]
           bytes == WriteText(fr.new_lines)
       IN  IF fault[fr.file_path] = "write"
           THEN /\ \E k \in 0..(Len(bytes) - 1) :
                      disk' = [disk EXCEPT ![fr.file_path] = SubSeq(bytes, 1, k)]
                /\ frames' = [frames EXCEPT ![w] = raised_v076(fr)]
           ELSE /\ disk' = [disk EXCEPT ![fr.file_path] = bytes]
                /\ frames' = [frames EXCEPT ![w] =
                                [fr EXCEPT !.pc = "returned",
                                           !.ret = [changed |-> TRUE,
                                                    changed_lines |-> fr.changed_lines]]]
    /\ io' = io \cup {[op |-> "write", path |-> frames[w].file_path, by |-> w]}
    /\ UNCHANGED previewed

\* a.INI holds a line that only the pattern of 0.7.8 / 0.7.9 matches, or
\* one that both patterns match; FaceFix.log may be there from a run before
InitV076 ==
    /\ \E ca \in {C_crlf, C_mark, C_none}, cA \in {C_B, C_c} :
          LET files == (F_a :> ca) @@ (F_A :> cA) @@ (F_dis :> C_dis) @@
                       (F_txt :> C_dis) @@ (F_c :> C_none)
          IN  disk \in {files, files @@ (F_log :> L_old)}
    /\ orig = disk
    /\ fault \in Faults
    /\ process_disabled = Unbound
    /\ scan_subfolders = Unbound
    /\ make_backup \in BOOLEAN
    /\ exclusion_patterns = Unbound
    /\ mpc = "v076_start"
    /\ ini_files = <<>>
    /\ files_to_modify = <<>>
    /\ pidx = 1
    /\ previewed = {}
    /\ frames = <<>>
    /\ io = {}
    /\ line = <<>>
    /\ parts = NoParts
    /\ out = <<>>
    /\ run = 1
    /\ first_apply = <<>>

\* line 197, get_exclusion_patterns() of 0.7.6, lines 93-109: folder names
\* are typed in when subfolders are scanned
V076Exclusions ==
    /\ mpc = "v076_exclude"
    /\ \E names \in (IF scan_subfolders THEN ExcludeChoices ELSE { <<>> }) :
          exclusion_patterns' = get_exclusion_patterns(names)
    /\ mpc' = "v076_collect"
    /\ UNCHANGED <<disk, process_disabled, scan_subfolders>>
    /\ V076Keeps

\* lines 238-243: without a candidate the run ends, else the previews begin
V076Found ==
    /\ mpc = "selected_v076"
    /\ mpc' = IF ini_files = <<>> THEN "exit" ELSE "preview"
    /\ UNCHANGED <<disk, ini_files, files_to_modify, pidx, previewed, frames, io>>
    /\ RunKeeps

\* the preview call in progress, line 248
V076PreviewRead ==
    /\ mpc = "preview"
    /\ SR_Read_v076(0)
    /\ UNCHANGED <<mpc, ini_files, files_to_modify, pidx>>
    /\ RunKeeps

\* the handler of the preview call
V076PreviewExcept ==
    /\ mpc = "preview"
    /\ SR_Except_v076(0)
    /\ UNCHANGED <<mpc, ini_files, files_to_modify, pidx>>
    /\ RunKeeps

\* the tasks of the pool, line 284, step by step
V076WorkerRead   == mpc = "apply" /\ (\E w \in DOMAIN frames : SR_Read_v076(w)) /\ WorkerKeeps
V076WorkerBackup == mpc = "apply" /\ (\E w \in DOMAIN frames : SR_Backup_v076(w)) /\ WorkerKeeps
V076WorkerCopy   == mpc = "apply" /\ (\E w \in DOMAIN frames : SR_Copy_v076(w)) /\ WorkerKeeps
V076WorkerOpen   == mpc = "apply" /\ (\E w \in DOMAIN frames : SR_Open_v076(w)) /\ WorkerKeeps
V076WorkerWrite  == mpc = "apply" /\ (\E w \in DOMAIN frames : SR_Write_v076(w)) /\ WorkerKeeps
V076WorkerExcept == mpc = "apply" /\ (\E w \in DOMAIN frames : SR_Except_v076(w)) /\ WorkerKeeps

\* the preview loop, the final confirmation, the submission of the tasks
\* and the end of the pool are those of 0.7.9
NextV076 ==
    \/ V076Logging
    \/ V076ProcessDisabled
    \/ V076ScanSubfolders
    \/ V076SettingsCorrect
    \/ V076Exclusions
    \/ SelectV076
    \/ V076Found
    \/ PreviewCall
    \/ V076PreviewRead
    \/ V076PreviewExcept
    \/ PreviewReturn
    \/ ConfirmApply
    \/ V076WorkerRead
    \/ V076WorkerBackup
    \/ V076WorkerCopy
    \/ V076WorkerOpen
    \/ V076WorkerWrite
    \/ V076WorkerExcept
    \/ Finish

SpecV076 == InitV076 /\ [][NextV076]_vars

-----------------------------------------------------------------------------
(* Properties of the line engine.                                          *)

\* C1: a line of the ps-tN form is rewritten to exactly its leading
\* whitespace, `this = `, the Resource identifier as written, and "\n",
\* whatever whitespace surrounds `=` or follows the identifier.
C1_RewrittenLine ==
    (/\ mpc = "line_done"
     /\ parts.lhs \in LhsOk
     /\ parts.rhs \in RhsOk
     /\ parts.trail \in TrailOk)
    => out = << parts.ind \o T_this_eq \o parts.rhs \o <<"\n">> >>

\* a tight `=`, a no-break space (U+00A0) of indentation, trailing blanks
\* and the next-line character (U+0085) at the end of the line, rewritten
C1_Witness ==
    /\ mpc = "line_done"
    /\ parts.ind = <<" ">>
    /\ parts.lhs \in LhsOk
    /\ parts.eq = <<"=">>
    /\ parts.rhs \in RhsOk
    /\ parts.trail = <<" ","\t">>
    /\ parts.term = <<"">>
    /\ out = << <<" ">> \o T_this_eq \o parts.rhs \o <<"\n">> >>

-----------------------------------------------------------------------------
(* Properties of single calls.                                             *)

\* the modifications the call w has made
IoBy(w) == {e \in io : e.by = w}

\* the lines smart_replace sees in the bytes b that match the pattern
MatchesIn(b) ==
    LET ls == splitlines(ReadText(b))
    IN  {i \in 1..Len(ls) : pattern(rstrip_nl(ls[i])).matched}

\* C2: in a file that smart_replace rewrote, every line that does not match
\* the pattern is in the written file at the same position with the same
\* content, line terminator included, and the number of lines is unchanged.
C2_NonMatchingKept ==
    \A w \in DOMAIN frames :
        (/\ w = LastCall
         /\ frames[w].pc = "returned"
         /\ frames[w].apply_changes
         /\ frames[w].ret.changed)
        => LET was == splitlines(frames[w].before)
               now == splitlines(disk[frames[w].file_path])
           IN  /\ Len(now) = Len(was)
               /\ \A i \in 1..Len(was) :
                     ~pattern(rstrip_nl(was[i])).matched
                     => (i <= Len(now) /\ now[i] = was[i])

\* C3: after a call has applied its rewrite, the next call finds no match
\* and returns (False, []); no line of the rewritten file matches.
C3_Idempotent ==
    \A i \in DOMAIN frames :
        (/\ i + 1 \in DOMAIN frames
         /\ frames[i].apply_changes
         /\ frames[i].ret.changed
         /\ frames[i + 1].pc = "returned")
        => /\ frames[i + 1].ret = ReturnFalse
           /\ MatchesIn(frames[i + 1].before) = {}
           /\ \A k \in 1..Len(frames[i].new_lines) :
                 ~pattern(rstrip_nl(frames[i].new_lines[k])).matched

\* a second call that would process anything, after an applied rewrite of
\* the file whose matching line starts with a no-break space, has a letter
\* above U+007F in the identifier and ends at the next-line character
C3_Witness ==
    /\ DOMAIN frames = {1, 2}
    /\ frames[1].apply_changes
    /\ frames[1].ret.changed
    /\ frames[1].before = C_lat
    /\ MatchesIn(frames[1].before) = {1}
    /\ frames[2].pc = "returned"
    /\ frames[2].process_disabled
    /\ frames[2].apply_changes
    /\ frames[2].ret = ReturnFalse

\* C4: a call with process_disabled false on a file whose bytes contain
\* DISABLED returns (False, []) and modifies neither the file nor a backup,
\* whatever the other flags are and whatever lines the file holds.
C4_DisabledUntouched ==
    \A w \in DOMAIN frames :
        (~frames[w].process_disabled /\ Contains(frames[w].before, T_DISABLED))
        => /\ frames[w].pc \in {"read", "returned"}
           /\ frames[w].ret = ReturnFalse
           /\ IoBy(w) = {}
           /\ (w = LastCall => disk[frames[w].file_path] = frames[w].before)

\* a marked file with a matching line, called to apply with a backup
C4_Witness ==
    \E w \in DOMAIN frames :
        /\ ~frames[w].process_disabled
        /\ Contains(frames[w].before, T_DISABLED)
        /\ MatchesIn(frames[w].before) # {}
        /\ fault[frames[w].file_path] = "none"
        /\ frames[w].apply_changes
        /\ frames[w].make_backup
        /\ frames[w].pc = "returned"
        /\ io = {}

\* C6: a call with apply_changes false writes nothing, whatever preview and
\* make_backup are; a backup is made only by a call with apply_changes and
\* make_backup both true on a file with a matching line.
C6_ApplyFlagGuardsWrites ==
    /\ \A w \in DOMAIN frames :
          ~frames[w].apply_changes
          => /\ IoBy(w) = {}
             /\ frames[w].pc \in {"read", "returned"}
             /\ (w = LastCall => disk[frames[w].file_path] = frames[w].before)
    /\ \A e \in io :
          (e.op = "backup" /\ e.by \in DOMAIN frames)
          => /\ frames[e.by].apply_changes
             /\ frames[e.by].make_backup
             /\ MatchesIn(frames[e.by].before) # {}

\* a preview-only call with make_backup on a file that has matches
C6_Witness ==
    \E w \in DOMAIN frames :
        /\ ~frames[w].apply_changes
        /\ frames[w].make_backup
        /\ frames[w].preview
        /\ frames[w].pc = "returned"
        /\ frames[w].ret.changed
        /\ IoBy(w) = {}

\* C8: when no line of the file matches, the call returns (False, []) and
\* neither opens the file for writing nor makes a backup, whatever
\* apply_changes and make_backup are.
C8_NoMatchNoWrite ==
    \A w \in DOMAIN frames :
        MatchesIn(frames[w].before) = {}
        => /\ frames[w].pc \in {"read", "returned"}
           /\ frames[w].ret = ReturnFalse
           /\ IoBy(w) = {}

\* a file without a match, called to apply with a backup
C8_Witness ==
    \E w \in DOMAIN frames :
        /\ MatchesIn(frames[w].before) = {}
        /\ fault[frames[w].file_path] = "none"
        /\ frames[w].process_disabled
        /\ frames[w].apply_changes
        /\ frames[w].make_backup
        /\ frames[w].pc = "returned"
        /\ frames[w].ret = ReturnFalse

-----------------------------------------------------------------------------
(* Properties of the run.                                                  *)

Range(q) == {q[i] : i \in 1..Len(q)}

\* the bytes smart_replace writes for a file that holds the bytes b
Rewritten(b) == WriteText(new_lines(splitlines(ReadText(b))))

\* the call on p finds something to change when nothing fails
Changes(p) ==
    /\ MatchesIn(orig[p]) # {}
    /\ (process_disabled \/ ~Contains(orig[p], T_DISABLED))

\* C5: after a run that applied changes with backups enabled, the backup
\* of every modified file holds the bytes the file had before the apply.
C5_BackupHoldsOriginal ==
    (mpc = "done" /\ make_backup)
    => \A w \in DOMAIN frames :
          frames[w].ret.changed
          => /\ backup_path(frames[w].file_path) \in DOMAIN disk
             /\ disk[backup_path(frames[w].file_path)] = orig[frames[w].file_path]

\* C7: with disabled-processing off, a file whose name contains `disabled`
\* in any letter case is no candidate, and is neither previewed, backed up
\* nor written in the run.
C7_DisabledNameExcluded ==
    ~process_disabled
    => \A p \in DOMAIN orig :
          Contains(Lower(basename(p)), T_disabled)
          => /\ p \notin Range(ini_files)
             /\ p \notin Range(files_to_modify)
             /\ p \notin previewed
             /\ \A w \in DOMAIN frames : frames[w].file_path # p
             /\ \A e \in io : e.path \notin {p, backup_path(p)}
             /\ disk[p] = orig[p]
             /\ backup_path(p) \notin DOMAIN disk

\* a finished run that changed files and left Disabled.ini, which has a
\* matching line and no marker, alone
C7_Witness ==
    /\ mpc = "done"
    /\ ~process_disabled
    /\ MatchesIn(orig[F_dis]) # {}
    /\ ~Contains(orig[F_dis], T_DISABLED)
    /\ \E e \in io : e.op = "write"
    /\ disk[F_dis] = orig[F_dis]

\* the failure that the call of frame fr on its file runs into
Hits(fr) ==
    \/ fault[fr.file_path] = "read"
    \/ /\ fr.apply_changes
       /\ Changes(fr.file_path)
       /\ \/ fault[fr.file_path] \in {"open", "write"}
          \/ fault[fr.file_path] \in {"backup", "copy"} /\ fr.make_backup

\* a call of the run on the file p runs into a failure: the preview when
\* the read fails, else the call of the apply phase
Fails(p) ==
    \/ fault[p] = "read"
    \/ /\ Changes(p)
       /\ \/ fault[p] \in {"open", "write"}
          \/ fault[p] \in {"backup", "copy"} /\ make_backup

\* C9: a failing read, backup or write never leaves smart_replace as an
\* exception: the call returns (False, []), and every other file of the
\* batch is previewed and applied exactly as in a run without the failing
\* file: it is previewed and selected exactly if it has changes, and when
\* the run is done it holds the rewritten content and, with backups on, its
\* backup holds the content it had before; a file without changes is as it
\* was.
C9_ErrorsContained ==
    /\ mpc # "aborted"
    /\ \A w \in DOMAIN frames :
          /\ frames[w].pc # "raised"
          /\ (frames[w].pc = "returned" /\ Hits(frames[w]))
             => frames[w].ret = ReturnFalse
    /\ mpc \in {"confirm", "apply", "done", "cancelled", "crashed", "exit"}
       => \A p \in Range(ini_files) :
             (fault[p] # "read" /\ Changes(p))
             <=> (p \in Range(files_to_modify) /\ p \in previewed)
    /\ mpc = "done"
       => /\ \A w \in DOMAIN frames :
                ~Hits(frames[w])
                => /\ frames[w].ret.changed
                   /\ disk[frames[w].file_path]
                        = Rewritten(orig[frames[w].file_path])
          /\ \A f \in Range(ini_files) :
                Fails(f)
                => \A p \in Range(ini_files) \ {f} :
                      IF Changes(p)
                      THEN /\ disk[p] = Rewritten(orig[p])
                           /\ make_backup
                              => /\ backup_path(p) \in DOMAIN disk
                                 /\ disk[backup_path(p)] = orig[p]
                      ELSE disk[p] = orig[p]

\* C10: with make_backup, in every state of an apply, a crash included, a
\* file has been overwritten only if its backup exists and holds the bytes
\* the file had before the apply.
C10_BackupBeforeOverwrite ==
    make_backup
    => \A p \in IniPaths :
          disk[p] # orig[p]
          => /\ backup_path(p) \in DOMAIN disk
             /\ disk[backup_path(p)] = orig[p]

-----------------------------------------------------------------------------
(* The apply phase run one file after another.                             *)

\* the disk after smart_replace(p, make_backup, False, True, process_disabled)
\* has run alone on the disk d; a failing copy or write leaves k bytes
apply_one(d, p, k) ==
    LET content == ReadText(d[p])
        lines   == splitlines(content)
        bk      == backup_path(p)
        d1      == IF make_backup THEN (bk :> d[p]) @@ d ELSE d
    IN  IF \/ fault[p] = "read"
           \/ skip_disabled(content, process_disabled)
           \/ no_change(changed_lines(lines))
        THEN d
        ELSE IF make_backup /\ fault[p] = "backup" THEN d
        ELSE IF make_backup /\ fault[p] = "copy"
        THEN (bk :> SubSeq(d[p], 1, k)) @@ d
        ELSE IF fault[p] = "open" THEN d1
        ELSE IF fault[p] = "write"
        THEN [d1 EXCEPT ![p] = SubSeq(WriteText(new_lines(lines)), 1, k)]
        ELSE [d1 EXCEPT ![p] = WriteText(new_lines(lines))]

\* the disks that applying files_to_modify[i], files_to_modify[i+1], ... in
\* this order can leave, starting from the disk d
RECURSIVE sequential(_, _)
sequential(d, i) ==
    IF i > Len(files_to_modify) THEN {d}
    ELSE LET p  == files_to_modify[i]
             n  == IF fault[p] = "copy" THEN Len(d[p])
                   ELSE IF fault[p] = "write"
                   THEN Len(WriteText(new_lines(splitlines(ReadText(d[p])))))
                   ELSE 0
             ks == IF n > 0 THEN 0..(n - 1) ELSE {0}
         IN  UNION {sequential(apply_one(d, p, k), i + 1) : k \in ks}

\* C11: whatever the interleaving of the pool's tasks, the originals and the
\* backups end as they do when the same files are applied one after another.
C11_ParallelAsSequential ==
    mpc = "done" => disk \in sequential(orig, 1)

-----------------------------------------------------------------------------
(* Properties of the file selectors.                                       *)

\* head.rstrip('/')
RECURSIVE rstrip_sep(_)
rstrip_sep(s) ==
    IF s # <<>> /\ s[Len(s)] = "/" THEN rstrip_sep(SubSeq(s, 1, Len(s) - 1))
    ELSE s

\* os.path.dirname(p): the text up to the last separator, without the
\* separators it ends with unless it consists of separators
dirname(p) ==
    LET head == SubSeq(p, 1, RFind(p, "/"))
    IN  IF \E k \in 1..Len(head) : head[k] # "/" THEN rstrip_sep(head) ELSE head

\* p lies in the directory dir or in one of its descendants: os.walk joins
\* the names below dir to it
Under(p, dir) ==
    LET prefix == join(dir, <<>>)
    IN  /\ Len(p) > Len(prefix)
        /\ SubSeq(p, 1, Len(prefix)) = prefix

\* some exclusion pattern, its stars removed, is a substring of the path,
\* letter case ignored
PatternHit(path) ==
    \E i \in 1..Len(exclusion_patterns) :
        Contains(Lower(slashes(path)), Lower(strip_star(exclusion_patterns[i])))

\* the file p is there, is an .ini file and is not held back as disabled
Eligible(p) ==
    /\ p \in DOMAIN disk
    /\ EndsWith(Lower(basename(p)), T_ini)
    /\ (process_disabled \/ ~is_disabled_file(p))

\* C12: every candidate has a name ending in .ini in any letter case, and
\* no directory from its own up to the root matches an exclusion pattern:
\* an excluded directory takes all files below it out of the candidates.
C12_CandidatesNotExcluded ==
    mpc = "selected_v079"
    => \A k \in 1..Len(ini_files) :
          LET p == ini_files[k]
          IN  /\ EndsWith(Lower(basename(p)), T_ini)
              /\ ~PatternHit(dirname(p))
              /\ \A i \in 1..Len(Tree) :
                    PatternHit(Tree[i].dirpath) => ~Under(p, Tree[i].dirpath)

\* a recursive selection that took a.ini and a.INI of the root while the
\* eligible files of the excluded directory /m/s and of the directory
\* below it stayed out, the folder name typed in being S in capital
C12_Witness ==
    /\ mpc = "selected_v079"
    /\ scan_subfolders
    /\ exclusion_patterns = get_exclusion_patterns(<< <<"S">> >>)
    /\ PatternHit(SubDir)
    /\ ~PatternHit(Root)
    /\ Eligible(F_c) /\ Eligible(F_e)
    /\ F_c \notin Range(ini_files) /\ F_e \notin Range(ini_files)
    /\ F_a \in Range(ini_files) /\ F_A \in Range(ini_files)

\* C13: a pattern is tested against the path below the root: an eligible
\* file of a scanned directory is a candidate exactly if no pattern is a
\* substring of that directory's path relative to the root.
C13_RelativePathOnly ==
    mpc = "selected_v079"
    => \A i \in 1..Len(Tree) :
          (scan_subfolders \/ Tree[i].dirpath = Root)
          => \A f \in Tree[i].filenames :
                LET p == join(Tree[i].dirpath, f)
                IN  Eligible(p)
                    => (p \in Range(ini_files)
                        <=> ~PatternHit(relpath(Tree[i].dirpath)))

\* C14: when subfolders are not scanned, every candidate is a direct child
\* of the root, whatever the exclusion patterns, in 0.7.9 and in 0.7.6.
C14_NonRecursiveRootOnly ==
    (mpc \in {"selected_v079", "selected_v076"} /\ ~scan_subfolders)
    => \A k \in 1..Len(ini_files) : dirname(ini_files[k]) = Root

\* a non-recursive selection that took a.ini although an eligible file lies
\* in a subdirectory that no pattern excludes
C14_Witness ==
    /\ mpc = "selected_v079"
    /\ ~scan_subfolders
    /\ F_a \in Range(ini_files)
    /\ Eligible(F_c)
    /\ ~PatternHit(SubDir)

\* C15: in V7.3 no file is overwritten and no backup is made before the
\* final confirmation is accepted; a declined run leaves every file as it
\* was at the start.
C15_NothingBeforeConfirm ==
    mpc \in {"v73_collect", "v73_preview", "v73_confirm", "cancelled"}
    => disk = orig

-----------------------------------------------------------------------------
(* Properties of the pattern.                                              *)

\* the lines of the one-line input as smart_replace read them
LinesRead == splitlines(ReadText(line))

\* every part of the input line has the form the pattern asks for
PartsOk ==
    /\ parts.lhs \in LhsOk
    /\ parts.rhs \in RhsOk
    /\ parts.trail \in TrailOk

\* C16: the match is anchored at both ends and ignores letter case: a line
\* is rewritten exactly if it is whitespace, ps-t, digits, `=`, a Resource
\* identifier and whitespace; text before ps-t, text after the identifier
\* or a missing digit keeps the line as it is, and the line in lower case
\* is rewritten exactly if the line is.
C16_AnchoredCaseInsensitive ==
    mpc = "line_done"
    => /\ (out # LinesRead) <=> PartsOk
       /\ (out # LinesRead)
          <=> (new_lines(splitlines(ReadText(Lower(line))))
                  # splitlines(ReadText(Lower(line))))

\* a line with a trailing comment after a well-formed assignment was read
\* and left as it is
C16_Witness ==
    /\ mpc = "line_done"
    /\ parts.lhs \in LhsOk
    /\ parts.rhs \in RhsOk
    /\ parts.trail \in TrailBad
    /\ out = LinesRead

\* C17: every line the four-suffix engine rewrites is rewritten by the
\* generalized engine, to the same output; where the two outputs differ the
\* four-suffix engine left the line as it was.
C17_GeneralCoversFour ==
    mpc = "line_done_four"
    => /\ (out # LinesRead) => (out = new_lines(LinesRead))
       /\ (out # new_lines(LinesRead)) => (out = LinesRead)

\* the four-suffix engine rewrote a line whose identifier has a letter
\* above U+007F between Resource and Face
C17_Witness ==
    /\ mpc = "line_done_four"
    /\ parts.rhs[9] = "É"
    /\ out # LinesRead
    /\ out = new_lines(LinesRead)

-----------------------------------------------------------------------------
(* Properties of the backups and of repeated runs.                         *)

\* C18: two distinct candidate files of a run have distinct backup paths.
C18_DistinctBackupPaths ==
    \A i, j \in 1..Len(ini_files) :
        ini_files[i] # ini_files[j]
        => backup_path(ini_files[i]) # backup_path(ini_files[j])

\* C19: when the latest call has returned (False, []), the file it was
\* called on holds the bytes it held when the call began.
C19_FalseMeansUntouched ==
    \A w \in DOMAIN frames :
        (w = LastCall /\ frames[w].pc = "returned" /\ frames[w].ret = ReturnFalse)
        => disk[frames[w].file_path] = frames[w].before

\* C20: once a run has rewritten a file with backups enabled, every further
\* complete run ends with the file and its backup as that run left them.
C20_RerunsKeepBackup ==
    mpc \in {"done", "exit"}
    => \A p \in DOMAIN first_apply :
          /\ disk[p] = first_apply[p].file
          /\ backup_path(p) \in DOMAIN disk
          /\ disk[backup_path(p)] = first_apply[p].backup

====
